---------------------------- MODULE Spec2Model ----------------------------
(***************************************************************************)
(* Secrets Store backend: the encryption envelope (EncryptionService) and  *)
(* the process start-up that constructs it (server.ts and the modules it   *)
(* imports).                                                               *)
(*                                                                         *)
(* Representation.  A string is the sequence of its characters' code       *)
(* points (scalar values of the basic plane; "a" is 97, "z" is 122), a     *)
(* Buffer is a sequence of bytes (0..255).                                 *)
(* The AES-256-GCM primitive of the crypto library is modelled as an       *)
(* ideal AEAD with GCM's structure: a keystream mask depending on key, iv  *)
(* and position, and a 16-byte tag depending on key, iv and ciphertext in  *)
(* which a change of one byte of iv or ciphertext always changes the tag.  *)
(***************************************************************************)
EXTENDS Integers, Sequences, FiniteSets, TLC

VARIABLES
    processEnv,     \* process.env of the backend process
    dotEnvFile,     \* the variables written in backend/.env
    phase,          \* where the process is in its start-up
    encryptionKey,  \* EncryptionService.encryptionKey (<<>> until constructed)
    ivLog,          \* the nonces returned by encrypt so far, oldest first
    lastEnc,        \* the last envelope returned by encrypt, with its plaintext
    result,         \* what the call in progress returned to its caller
    exitError,      \* the message of the error the process ended with, "" if none
    nodeEnv,        \* process.env.NODE_ENV
    traffic,        \* what the clients of this run send: "usual" or "longest" requests
    secrets,        \* the rows of the table "secrets" of the store
    dbTime,         \* the number of rows inserted or updated so far (the store's clock)
    reqs,           \* the HTTP requests in progress, by connection
    logged,         \* the lines the last step wrote to the console
    damaged,        \* the ids of the rows the storage altered since they were written
    modal           \* the dashboard page's save modal: its props, state and pending save

vars == <<processEnv, dotEnvFile, phase, encryptionKey, ivLog, lastEnc, result, exitError,
          nodeEnv, traffic, secrets, dbTime, reqs, logged, damaged, modal>>

\* the variables of the service calls and of the start-up
serviceVars == <<processEnv, dotEnvFile, phase, encryptionKey, ivLog, lastEnc, result, exitError>>

\* the variables of the HTTP API
apiVars == <<nodeEnv, traffic, secrets, dbTime, reqs, logged, damaged>>

\* the variables of the dashboard page
uiVars == <<modal>>

-----------------------------------------------------------------------------
(* Bounds of the model *)

\* longest plaintext, in characters
MaxLen == 1
\* encrypt calls per process
MaxCalls == 2

(* Program constants *)

ivLength == 16
tagLength == 16
keyLength == 32

-----------------------------------------------------------------------------
(* Strings, buffers and hex *)

Rep(c, n) == [i \in 1..n |-> c]

\* the character of a hex digit value, as toString('hex') writes it: 0-9, a-f
HexChar(v) == IF v < 10 THEN 48 + v ELSE 87 + v

\* the value of a hex digit (0-9, a-f, A-F), -1 for any other character
Unhex(c) ==
    IF c >= 48 /\ c <= 57 THEN c - 48
    ELSE IF c >= 97 /\ c <= 102 THEN c - 87
    ELSE IF c >= 65 /\ c <= 70 THEN c - 55
    ELSE -1

RECURSIVE HexPairs(_, _)
\* the number of pairs of two hex digits s has from pair i on, up to the
\* first pair that is not two hex digits; a trailing single character is
\* no pair
HexPairs(s, i) ==
    IF 2 * i > Len(s) \/ Unhex(s[2 * i - 1]) < 0 \/ Unhex(s[2 * i]) < 0 THEN 0
    ELSE 1 + HexPairs(s, i + 1)

\* Buffer.from(s, 'hex'): the bytes of the leading pairs of hex digits
BufferFromHex(s) ==
    [i \in 1..HexPairs(s, 1) |-> 16 * Unhex(s[2 * i - 1]) + Unhex(s[2 * i])]

\* buf.toString('hex') (the bytes are taken as a tuple first, which keeps
\* the evaluation of long buffers fast)
ToHex(buf) ==
    LET bytes == SubSeq(buf, 1, Len(buf)) IN
    [i \in 1..(2 * Len(bytes)) |->
        HexChar(IF i % 2 = 1 THEN bytes[(i + 1) \div 2] \div 16
                             ELSE bytes[i \div 2] % 16)]

\* s is a well-formed hex string: only hex digits, an even number of them
IsValidHex(s) == Len(s) % 2 = 0 /\ \A i \in 1..Len(s) : Unhex(s[i]) >= 0

-----------------------------------------------------------------------------
(* UTF-8 *)

\* the bytes of one UTF-16 code unit of a string; a surrogate that stands
\* without its other half (the only surrogates the inputs hold) is written as
\* U+FFFD, EF BF BD
Utf8EncodeCp(cp) ==
    IF cp < 128 THEN <<cp>>
    ELSE IF cp >= 55296 /\ cp < 57344 THEN <<239, 191, 189>>
    ELSE IF cp < 2048 THEN <<192 + (cp \div 64), 128 + (cp % 64)>>
    ELSE <<224 + (cp \div 4096), 128 + ((cp \div 64) % 64), 128 + (cp % 64)>>

RECURSIVE Utf8Encode(_)
\* the bytes of the characters of str, in order (the string is split in
\* halves, which keeps the evaluation shallow for long strings)
Utf8Encode(str) ==
    IF Len(str) = 0 THEN <<>>
    ELSE IF Len(str) = 1 THEN Utf8EncodeCp(str[1])
    ELSE LET half == Len(str) \div 2 IN
         Utf8Encode(SubSeq(str, 1, half)) \o Utf8Encode(SubSeq(str, half + 1, Len(str)))

IsCont(b) == b >= 128 /\ b < 192

RECURSIVE Utf8DecodeFrom(_, _)
\* the characters of the bytes from index i on; an ill-formed byte decodes
\* to U+FFFD
Utf8DecodeFrom(buf, i) ==
    IF i > Len(buf) THEN <<>>
    ELSE LET b == buf[i] IN
         IF b < 128 THEN <<b>> \o Utf8DecodeFrom(buf, i + 1)
         ELSE IF b >= 194 /\ b < 224 /\ i + 1 <= Len(buf) /\ IsCont(buf[i + 1])
         THEN <<(b - 192) * 64 + (buf[i + 1] - 128)>> \o Utf8DecodeFrom(buf, i + 2)
         ELSE IF b >= 224 /\ b < 240 /\ i + 2 <= Len(buf)
                 /\ IsCont(buf[i + 1]) /\ IsCont(buf[i + 2])
                 /\ (b = 224 => buf[i + 1] >= 160)
                 /\ (b = 237 => buf[i + 1] < 160)
         THEN <<(b - 224) * 4096 + (buf[i + 1] - 128) * 64 + (buf[i + 2] - 128)>>
              \o Utf8DecodeFrom(buf, i + 3)
         ELSE <<65533>> \o Utf8DecodeFrom(buf, i + 1)

Utf8Decode(buf) == Utf8DecodeFrom(buf, 1)

-----------------------------------------------------------------------------
(* The aes-256-gcm primitive of the crypto library *)

RECURSIVE SumOf(_, _, _)
\* the sum of the n bytes buf[j], buf[j + 16], buf[j + 32], ...
SumOf(buf, j, n) ==
    IF n = 0 THEN 0
    ELSE IF n = 1 THEN buf[j]
    ELSE LET half == n \div 2 IN
         SumOf(buf, j, half) + SumOf(buf, j + tagLength * half, n - half)

\* the sum of buf[j], buf[j + 16], buf[j + 32], ...
SumFrom(buf, j) ==
    IF j > Len(buf) THEN 0 ELSE SumOf(buf, j, ((Len(buf) - j) \div tagLength) + 1)

\* the keystream byte at position i
Mask(key, iv, i) ==
    (key[((i - 1) % Len(key)) + 1] + iv[((i - 1) % Len(iv)) + 1] + i) % 256

GcmEncryptBytes(key, iv, pt) == [i \in 1..Len(pt) |-> (pt[i] + Mask(key, iv, i)) % 256]

GcmDecryptBytes(key, iv, ct) == [i \in 1..Len(ct) |-> (ct[i] + 256 - Mask(key, iv, i)) % 256]

\* cipher.getAuthTag(): the 16-byte tag over key, iv and ciphertext (the
\* ciphertext taken as a tuple first)
GcmTag(key, iv, ct) ==
    LET bytes == SubSeq(ct, 1, Len(ct)) IN
    [j \in 1..tagLength |->
        (key[j] + 3 * key[j + tagLength] + SumFrom(iv, j) + SumFrom(bytes, j)
         + 7 * Len(iv) + 11 * Len(bytes)) % 256]

\* crypto.createCipheriv / crypto.createDecipheriv accept the key and the iv:
\* the key has the cipher's length and the iv is not empty
CipherivOk(key, iv) == Len(key) = keyLength /\ Len(iv) > 0

\* decipher.setAuthTag accepts a tag of 4, 8 or 12 to 16 bytes when no
\* authTagLength option was given to createDecipheriv
SetAuthTagOk(authTag) ==
    Len(authTag) \in {4, 8} \/ (Len(authTag) >= 12 /\ Len(authTag) <= tagLength)

\* decipher.update(data, 'hex', ...) accepts the string: its length is even
UpdateHexOk(data) == Len(data) % 2 = 0

FinalOk_NoVerify(key, iv, ct, authTag) == TRUE

\* decipher.final() succeeds: the tag as long as the one set equals the
\* tag recomputed over the ciphertext
FinalOk(key, iv, ct, authTag) ==
    SubSeq(GcmTag(key, iv, ct), 1, Len(authTag)) = authTag

-----------------------------------------------------------------------------
(* EncryptionService *)

Returned(v) == [threw |-> FALSE, value |-> v]

Thrown(msg) == [threw |-> TRUE, message |-> msg]

getEncryptionKey_NoLengthCheck(key) ==
    IF key = <<>> THEN Thrown("ENCRYPTION_KEY is not set in environment variables")
    ELSE Returned(BufferFromHex(key))

getEncryptionKey_AtLeast(key) ==
    IF key = <<>> THEN Thrown("ENCRYPTION_KEY is not set in environment variables")
    ELSE IF Len(BufferFromHex(key)) < keyLength
         THEN Thrown("Encryption key must be 32 bytes (64 hex characters)")
         ELSE Returned(BufferFromHex(key))

\* getEncryptionKey(), key being process.env.ENCRYPTION_KEY (<<>> when unset)
getEncryptionKey(key) ==
    IF key = <<>> THEN Thrown("ENCRYPTION_KEY is not set in environment variables")
    ELSE LET keyBuffer == BufferFromHex(key) IN
         IF Len(keyBuffer) # keyLength
         THEN Thrown("Encryption key must be 32 bytes (64 hex characters)")
         ELSE Returned(keyBuffer)

encrypt_FixedIv(key, plaintext, randomIv) ==
    LET iv == Rep(0, ivLength)
        ct == GcmEncryptBytes(key, iv, Utf8Encode(plaintext))
    IN  Returned([encryptedContent |-> ToHex(ct), iv |-> ToHex(iv),
                  authTag |-> ToHex(GcmTag(key, iv, ct))])

\* encrypt that only encodes: the hex of the plaintext's bytes, unmasked
encrypt_HexOnly(key, plaintext, randomIv) ==
    LET iv == randomIv
        bytes == Utf8Encode(plaintext)
    IN  Returned([encryptedContent |-> ToHex(bytes),
                  iv |-> ToHex(iv),
                  authTag |-> ToHex(GcmTag(key, iv, bytes))])

\* encrypt as a block mode would frame it: the plaintext padded to whole blocks
encrypt_Padded(key, plaintext, randomIv) ==
    LET iv == randomIv
        bytes == Utf8Encode(plaintext)
        pad == tagLength - (Len(bytes) % tagLength)
        encrypted == GcmEncryptBytes(key, iv, bytes \o Rep(pad, pad))
    IN  Returned([encryptedContent |-> ToHex(encrypted),
                  iv |-> ToHex(iv),
                  authTag |-> ToHex(GcmTag(key, iv, encrypted))])

\* encrypt(plaintext) under the cached key, randomIv being what
\* crypto.randomBytes(ivLength) returns in this call
encrypt(key, plaintext, randomIv) ==
    LET iv == randomIv IN
    IF ~CipherivOk(key, iv) THEN Thrown("Failed to encrypt data")
    ELSE LET encrypted == GcmEncryptBytes(key, iv, Utf8Encode(plaintext))
             authTag == GcmTag(key, iv, encrypted)
         IN  Returned([encryptedContent |-> ToHex(encrypted),
                       iv |-> ToHex(iv),
                       authTag |-> ToHex(authTag)])

DecryptError == Thrown("Failed to decrypt data - data may be corrupted or tampered")

decrypt_Latin1(key, encryptedContent, ivHex, authTagHex) ==
    LET iv == BufferFromHex(ivHex)
        authTag == BufferFromHex(authTagHex)
        ct == BufferFromHex(encryptedContent)
    IN  IF ~CipherivOk(key, iv) \/ ~SetAuthTagOk(authTag) \/ ~UpdateHexOk(encryptedContent)
           \/ ~FinalOk(key, iv, ct, authTag)
        THEN DecryptError
        ELSE Returned(GcmDecryptBytes(key, iv, ct))

decrypt_SwallowFinal(key, encryptedContent, ivHex, authTagHex) ==
    LET iv == BufferFromHex(ivHex)
        authTag == BufferFromHex(authTagHex)
        ct == BufferFromHex(encryptedContent)
    IN  IF ~CipherivOk(key, iv) \/ ~SetAuthTagOk(authTag) \/ ~UpdateHexOk(encryptedContent)
        THEN DecryptError
        ELSE Returned(Utf8Decode(GcmDecryptBytes(key, iv, ct)))

\* decrypt(encryptedContent, ivHex, authTagHex) under the cached key: every
\* exception of the body is caught and rethrown as the one decryption Error
decrypt(key, encryptedContent, ivHex, authTagHex) ==
    LET iv == BufferFromHex(ivHex)
        authTag == BufferFromHex(authTagHex)
    IN  IF ~CipherivOk(key, iv) THEN DecryptError
        ELSE IF ~SetAuthTagOk(authTag) THEN DecryptError
        ELSE IF ~UpdateHexOk(encryptedContent) THEN DecryptError
        ELSE LET ct == BufferFromHex(encryptedContent) IN
             IF ~FinalOk(key, iv, ct, authTag) THEN DecryptError
             ELSE Returned(Utf8Decode(GcmDecryptBytes(key, iv, ct)))

\* a key generator that writes each byte as a hex number without a leading zero
generateEncryptionKey_Unpadded(randomKey) ==
    LET hex == ToHex(randomKey)
        kept == {i \in 1..Len(hex) : i % 2 = 0 \/ hex[i] # 48}
        IndexOf(n) == CHOOSE i \in kept : Cardinality({j \in kept : j <= i}) = n
    IN  [n \in 1..Cardinality(kept) |-> hex[IndexOf(n)]]

\* generateEncryptionKey(), randomKey being what crypto.randomBytes(32) returns
generateEncryptionKey(randomKey) == ToHex(randomKey)

-----------------------------------------------------------------------------
(* Inputs of the model *)

\* the characters a plaintext is made of: one of one byte, one of two bytes
Alphabet == {97, 233}

Plaintexts == UNION {[1..n -> Alphabet] : n \in 0..MaxLen}

\* the values crypto.randomBytes(ivLength) returns
IVPool == {[i \in 1..ivLength |-> i], [i \in 1..ivLength |-> 255 - i]}

ZeroKeyHex == Rep(48, 2 * keyLength)

PatternKeyHex == [i \in 1..(2 * keyLength) |-> HexChar((i * 7) % 16)]

\* "not-hex"
NotHex == <<110, 111, 116, 45, 104, 101, 120>>

\* "alsonothex"
AlsoNotHex == <<97, 108, 115, 111, 110, 111, 116, 104, 101, 120>>

\* "nope"
Nope == <<110, 111, 112, 101>>

\* the values ENCRYPTION_KEY is given, <<>> being the unset variable
KeyCandidates ==
    { <<>>,
      ZeroKeyHex,
      PatternKeyHex,
      Rep(97, keyLength),                        \* 16 bytes: "aa...a"
      Rep(97, 2 * keyLength + 2),                \* 33 bytes
      PatternKeyHex \o <<122, 122>>,             \* 64 hex digits, then "zz"
      [PatternKeyHex EXCEPT ![9] = 103],         \* a "g" among the hex digits
      NotHex }

\* the keys of the deployments whose envelopes may reach this process
ValidKeys == {BufferFromHex(ZeroKeyHex), BufferFromHex(PatternKeyHex)}

\* the values crypto.randomBytes(32) returns
RandomKeys == {[i \in 1..keyLength |-> (i * 11) % 256], [i \in 1..keyLength |-> 255]}

NoResult == [op |-> "none"]

NoEnc == [set |-> FALSE]

-----------------------------------------------------------------------------
(* What reaches decrypt: envelopes and what storage or transport made of them *)

FlipBit(byte, bit) ==
    IF (byte \div (2 ^ bit)) % 2 = 1 THEN byte - 2 ^ bit ELSE byte + 2 ^ bit

\* the hex string of the bytes of hex with one bit of byte idx flipped
FlipInHex(hex, idx, bit) ==
    LET buf == BufferFromHex(hex) IN ToHex([buf EXCEPT ![idx] = FlipBit(buf[idx], bit)])

Envelope(ct, iv, tag) == [encryptedContent |-> ct, iv |-> iv, authTag |-> tag]

Choice(origin, key, plaintext, random, tamper, field, pos, bit) ==
    [origin |-> origin, key |-> key, plaintext |-> plaintext, random |-> random,
     tamper |-> tamper, field |-> field, pos |-> pos, bit |-> bit]

\* what may happen to an envelope of n ciphertext bytes between encrypt and
\* decrypt: nothing, one bit of one field flipped, characters appended to a
\* field, the iv or the tag cut short
Tampers(n) ==
    {<<"none", "-", 0, 0>>}
    \cup {<<"flip", "encryptedContent", i, b>> : i \in 1..n, b \in 0..7}
    \cup {<<"flip", f, i, b>> : f \in {"iv", "authTag"}, i \in 1..ivLength, b \in 0..7}
    \cup {<<"junk", f, 0, 0>> : f \in {"encryptedContent", "iv", "authTag"}}
    \cup {<<"odd", "encryptedContent", 0, 0>>}
    \cup {<<"short", "authTag", i, 0>> : i \in 0..(tagLength - 1)}
    \cup {<<"short", "iv", i, 0>> : i \in {0, 12, ivLength - 1}}

\* the string s of field f after the alteration t of field t[2]
Altered(s, f, t) ==
    IF t[2] # f THEN s
    ELSE IF t[1] = "flip" THEN FlipInHex(s, t[3], t[4])
    ELSE IF t[1] = "junk" THEN s \o <<122, 122>>
    ELSE IF t[1] = "odd" THEN s \o <<48>>
    ELSE IF t[1] = "short" THEN SubSeq(s, 1, 2 * t[3])
    ELSE s

\* the choices of what decrypt is called with: the last envelope encrypt
\* returned, as returned or altered; an envelope made under another key;
\* strings that are no envelope
DecryptChoices ==
    (IF lastEnc.set
     THEN {Choice("own", <<>>, lastEnc.plaintext, <<>>, t[1], t[2], t[3], t[4]) :
              t \in Tampers(Len(lastEnc.envelope.encryptedContent) \div 2)}
     ELSE {})
    \cup {Choice("foreign", k, p, iv, "none", "-", 0, 0) :
             k \in ValidKeys \ {encryptionKey}, p \in Plaintexts, iv \in IVPool}
    \cup {Choice("malformed", <<>>, <<>>, <<>>, "none", "-", i, 0) : i \in 0..1}

\* the three strings of a choice
InputOf(c) ==
    LET e == IF c.origin = "own" THEN lastEnc.envelope
             ELSE IF c.origin = "foreign" THEN encrypt(c.key, c.plaintext, c.random).value
             ELSE IF c.pos = 0 THEN Envelope(NotHex, AlsoNotHex, Nope)
             ELSE Envelope(<<>>, <<>>, <<>>)
        t == <<c.tamper, c.field, c.pos, c.bit>>
    IN  Envelope(Altered(e.encryptedContent, "encryptedContent", t),
                 Altered(e.iv, "iv", t),
                 Altered(e.authTag, "authTag", t))

-----------------------------------------------------------------------------
(* Start-up of the process: server.ts *)

\* a connection on which no request is in progress
Idle == [pc |-> "idle"]

\* the connections the clients use
Slots == {"c1", "c2"}

\* no request was received yet and the table is empty
\* no save of the modal is in progress
NoSave == [pending |-> FALSE]

\* the dashboard page as it mounts: modalState { isOpen: false, mode:
\* 'create' } and the modal's content '', isSaving false, error null; the
\* counters tell how often the page opened the modal and how often the modal
\* called onSave and onClose, event is what happened last
ModalClosed ==
    [isOpen |-> FALSE, mode |-> "create", content |-> <<>>, isSaving |-> FALSE,
     error |-> <<>>, saving |-> NoSave,
     opened |-> 0, onSaveCalls |-> 0, onCloseCalls |-> 0, event |-> "mount"]

NoTraffic ==
    /\ nodeEnv = ""
    /\ traffic = "usual"
    /\ secrets = {}
    /\ dbTime = 0
    /\ reqs = [s \in Slots |-> Idle]
    /\ logged = <<>>
    /\ damaged = {}
    /\ modal = ModalClosed

EnvVars(key, supabase) ==
    [ENCRYPTION_KEY |-> key, SUPABASE_URL |-> supabase, SUPABASE_SERVICE_KEY |-> supabase]

Init ==
    /\ \E key \in KeyCandidates, keyIn \in {"env", "file"},
          supabaseIn \in {"env", "file", "none"} :
          /\ processEnv = EnvVars(IF keyIn = "env" THEN key ELSE <<>>,
                                  IF supabaseIn = "env" THEN "set" ELSE "")
          /\ dotEnvFile = EnvVars(IF keyIn = "file" THEN key ELSE <<>>,
                                  IF supabaseIn = "file" THEN "set" ELSE "")
    /\ phase = "loading"
    /\ encryptionKey = <<>>
    /\ ivLog = <<>>
    /\ lastEnc = NoEnc
    /\ result = NoResult
    /\ exitError = ""
    /\ NoTraffic

\* createSupabaseClient(): validateConfig over the process environment
createSupabaseClient(env) ==
    IF env.SUPABASE_URL = ""
    THEN Thrown("SUPABASE_URL is not set in environment variables")
    ELSE IF env.SUPABASE_SERVICE_KEY = ""
         THEN Thrown("SUPABASE_SERVICE_KEY is not set in environment variables")
         ELSE Returned("client")

\* The imports of server.ts are evaluated before its first statement: the
\* router loads the controllers, which load the Supabase client and then the
\* EncryptionService singleton, both constructed at load.  An error thrown
\* while loading ends the process.
ImportModules ==
    /\ phase = "loading"
    /\ LET client == createSupabaseClient(processEnv)
           key == getEncryptionKey(processEnv.ENCRYPTION_KEY)
       IN  IF client.threw
           THEN /\ phase' = "exited"
                /\ exitError' = client.message
                /\ UNCHANGED encryptionKey
           ELSE IF key.threw
           THEN /\ phase' = "exited"
                /\ exitError' = key.message
                /\ UNCHANGED encryptionKey
           ELSE /\ phase' = "imported"
                /\ encryptionKey' = key.value
                /\ UNCHANGED exitError
    /\ UNCHANGED <<processEnv, dotEnvFile, ivLog, lastEnc, result>>
    /\ UNCHANGED <<apiVars, uiVars>>

\* dotenv.config(): a variable of .env is set unless the process has it
DotenvConfig ==
    /\ phase = "imported"
    /\ processEnv' =
          [ENCRYPTION_KEY |-> IF processEnv.ENCRYPTION_KEY = <<>>
                              THEN dotEnvFile.ENCRYPTION_KEY
                              ELSE processEnv.ENCRYPTION_KEY,
           SUPABASE_URL |-> IF processEnv.SUPABASE_URL = ""
                            THEN dotEnvFile.SUPABASE_URL
                            ELSE processEnv.SUPABASE_URL,
           SUPABASE_SERVICE_KEY |-> IF processEnv.SUPABASE_SERVICE_KEY = ""
                                    THEN dotEnvFile.SUPABASE_SERVICE_KEY
                                    ELSE processEnv.SUPABASE_SERVICE_KEY]
    /\ phase' = "configured"
    /\ UNCHANGED <<dotEnvFile, encryptionKey, ivLog, lastEnc, result, exitError>>
    /\ UNCHANGED <<apiVars, uiVars>>

\* startServer(): exit(1) when a required variable is missing, else listen
StartServer ==
    /\ phase = "configured"
    /\ IF processEnv.SUPABASE_URL = "" \/ processEnv.SUPABASE_SERVICE_KEY = ""
          \/ processEnv.ENCRYPTION_KEY = <<>>
       THEN /\ phase' = "exited"
            /\ exitError' = "Missing required environment variables"
       ELSE /\ phase' = "listening"
            /\ UNCHANGED exitError
    /\ UNCHANGED <<processEnv, dotEnvFile, encryptionKey, ivLog, lastEnc, result>>
    /\ UNCHANGED <<apiVars, uiVars>>

-----------------------------------------------------------------------------
(* Calls of the service while the process serves requests *)

CallEncrypt ==
    /\ phase = "listening"
    /\ result = NoResult
    /\ Len(ivLog) < MaxCalls
    /\ \E plaintext \in Plaintexts, random \in IVPool :
          LET out == encrypt(encryptionKey, plaintext, random) IN
          /\ result' = [op |-> "encrypt", plaintext |-> plaintext, out |-> out]
          /\ IF out.threw
             THEN UNCHANGED <<ivLog, lastEnc>>
             ELSE /\ ivLog' = Append(ivLog, [random |-> random, iv |-> out.value.iv])
                  /\ lastEnc' = [set |-> TRUE, plaintext |-> plaintext,
                                 envelope |-> out.value]
    /\ UNCHANGED <<processEnv, dotEnvFile, phase, encryptionKey, exitError>>
    /\ UNCHANGED <<apiVars, uiVars>>

\* a decrypt that erases the cached key once it has run
CallDecrypt_WipesKey ==
    /\ phase = "listening"
    /\ result = NoResult
    /\ \E choice \in DecryptChoices :
          LET input == InputOf(choice) IN
          result' = [op |-> "decrypt", choice |-> choice,
                     out |-> decrypt(encryptionKey, input.encryptedContent,
                                     input.iv, input.authTag)]
    /\ encryptionKey' = Rep(0, keyLength)
    /\ UNCHANGED <<processEnv, dotEnvFile, phase, ivLog, lastEnc, exitError>>
    /\ UNCHANGED <<apiVars, uiVars>>

\* a decrypt that runs on the cipher state the last encrypt call left: its
\* iv rather than the one it is given
CallDecrypt_SharedCipher ==
    /\ phase = "listening"
    /\ result = NoResult
    /\ \E choice \in DecryptChoices :
          LET input == InputOf(choice) IN
          result' = [op |-> "decrypt", choice |-> choice,
                     out |-> decrypt(encryptionKey, input.encryptedContent,
                                     IF lastEnc.set THEN lastEnc.envelope.iv ELSE input.iv,
                                     input.authTag)]
    /\ UNCHANGED <<processEnv, dotEnvFile, phase, encryptionKey, ivLog, lastEnc, exitError>>
    /\ UNCHANGED <<apiVars, uiVars>>

CallDecrypt ==
    /\ phase = "listening"
    /\ result = NoResult
    /\ \E choice \in DecryptChoices :
          LET input == InputOf(choice) IN
          result' = [op |-> "decrypt", choice |-> choice,
                     out |-> decrypt(encryptionKey, input.encryptedContent,
                                     input.iv, input.authTag)]
    /\ UNCHANGED <<processEnv, dotEnvFile, phase, encryptionKey, ivLog, lastEnc, exitError>>
    /\ UNCHANGED <<apiVars, uiVars>>

CallGenerateEncryptionKey_StoresKey ==
    /\ phase = "listening"
    /\ result = NoResult
    /\ \E randomKey \in RandomKeys :
          /\ result' = [op |-> "generate", out |-> Returned(generateEncryptionKey(randomKey))]
          /\ encryptionKey' = randomKey
    /\ UNCHANGED <<processEnv, dotEnvFile, phase, ivLog, lastEnc, exitError>>
    /\ UNCHANGED <<apiVars, uiVars>>

CallGenerateEncryptionKey ==
    /\ phase = "listening"
    /\ result = NoResult
    /\ \E randomKey \in RandomKeys :
          result' = [op |-> "generate", out |-> Returned(generateEncryptionKey(randomKey))]
    /\ UNCHANGED <<processEnv, dotEnvFile, phase, encryptionKey, ivLog, lastEnc, exitError>>
    /\ UNCHANGED <<apiVars, uiVars>>

\* the caller has taken what the call returned
Return ==
    /\ result # NoResult
    /\ result' = NoResult
    /\ UNCHANGED <<processEnv, dotEnvFile, phase, encryptionKey, ivLog, lastEnc, exitError>>
    /\ UNCHANGED <<apiVars, uiVars>>

Next ==
    \/ ImportModules
    \/ DotenvConfig
    \/ StartServer
    \/ CallEncrypt
    \/ CallDecrypt
    \/ CallGenerateEncryptionKey
    \/ Return

Spec == Init /\ [][Next]_vars

-----------------------------------------------------------------------------
(* The HTTP API: what the clients send *)

\* longest run of writes (inserts and updates) the store accepts in a run
MaxWrites == 2

\* the users the identity provider knows
Users == {"user-1", "user-2"}

\* gen_random_uuid() of the store: the id of the n-th row ever inserted
Uuids == <<"uuid-1", "uuid-2", "uuid-3", "uuid-4">>

\* the :id of a request path: ids the store gives out and a string that is no UUID
IdParams == {Uuids[1], Uuids[2], "not-a-uuid"}

\* "Bearer"
BearerWord == <<66, 101, 97, 114, 101, 114>>

\* the access tokens: "t1" of user-1, "t2" of user-2, "x" of nobody
Token1 == <<116, 49>>
Token2 == <<116, 50>>
TokenX == <<120>>

\* the Authorization headers, <<>> being the absent header
AuthHeaders ==
    { <<>>,
      BearerWord \o <<32>> \o Token1,
      BearerWord \o <<32>> \o Token2,
      BearerWord \o <<32>> \o TokenX,
      BearerWord \o <<32>>,                                  \* "Bearer "
      BearerWord \o <<32, 32>> \o Token1,                    \* two spaces
      BearerWord \o <<32>> \o Token1 \o <<32>>,              \* trailing space
      <<98, 101, 97, 114, 101, 114, 32>> \o Token1,          \* "bearer t1"
      <<66, 97, 115, 105, 99, 32>> \o Token1,                \* "Basic t1"
      Token1 }

\* a value that may be undefined: <<>> is undefined, <<v>> is the value v
Undefined == <<>>

Some(v) == <<v>>

\* "Untitled Secret"
UntitledSecret ==
    <<85, 110, 116, 105, 116, 108, 101, 100, 32, 83, 101, 99, 114, 101, 116>>

\* "[Decryption Error]"
DecryptionErrorMarker ==
    <<91, 68, 101, 99, 114, 121, 112, 116, 105, 111, 110, 32, 69, 114, 114, 111, 114, 93>>

\* a request body { name, content }
Body(name, content) == [name |-> name, content |-> content]

\* the high surrogate U+D83D, which JSON.parse returns for "\ud83d"
LoneSurrogate == 55357

\* the bodies the clients usually send: no name with the contents "", " "
\* and one surrogate without its other half, the name "" with "a", the name
\* "n" with " e' " (e' being the two-byte character, between two spaces)
UsualBodies ==
    {Body(Undefined, <<>>), Body(Undefined, <<32>>), Body(Undefined, <<LoneSurrogate>>),
     Body(Some(<<>>), <<97>>), Body(Some(<<110>>), <<32, 233, 32>>)}

\* the longest content validateCreateSecret and validateUpdateSecret accept
MaxContentLength == 10000

\* the bodies around the longest content: 10,000 and 10,001 times "a",
\* 10,000 times "a" between two spaces, the empty content and a content of
\* a space and a tab
LongestBodies ==
    {Body(Undefined, Rep(97, MaxContentLength)),
     Body(Undefined, Rep(97, MaxContentLength + 1)),
     Body(Some(<<110>>), <<32>> \o Rep(97, MaxContentLength) \o <<32>>),
     Body(Undefined, <<>>),
     Body(Undefined, <<32, 9>>)}

Bodies == IF traffic = "longest" THEN LongestBodies ELSE UsualBodies

\* crypto.randomBytes(ivLength) in the n-th write of a run: the random source
\* as a stream of two alternating values
RandomBytesAt(n) ==
    SubSeq(IF n % 2 = 1 THEN [i \in 1..ivLength |-> i] ELSE [i \in 1..ivLength |-> 255 - i],
           1, ivLength)

-----------------------------------------------------------------------------
(* Middleware: auth.ts and validation.ts *)

RECURSIVE Split(_, _)
\* str.split(sep) for a one-character separator
Split(str, sep) ==
    IF \A i \in 1..Len(str) : str[i] # sep THEN <<str>>
    ELSE LET k == CHOOSE i \in 1..Len(str) :
                      str[i] = sep /\ \A j \in 1..(i - 1) : str[j] # sep
         IN  <<SubSeq(str, 1, k - 1)>> \o Split(SubSeq(str, k + 1, Len(str)), sep)

\* an extraction that takes the scheme in any case
extractBearerToken_AnyCase(authHeader) ==
    IF authHeader = <<>> THEN Undefined
    ELSE LET parts == Split(authHeader, 32)
             lower == [i \in 1..Len(parts[1]) |->
                          IF parts[1][i] >= 65 /\ parts[1][i] <= 90
                          THEN parts[1][i] + 32 ELSE parts[1][i]]
         IN  IF Len(parts) # 2 \/ lower # <<98, 101, 97, 114, 101, 114>> THEN Undefined
             ELSE Some(parts[2])

\* extractBearerToken(authHeader): the token, or null (Undefined)
extractBearerToken(authHeader) ==
    IF authHeader = <<>> THEN Undefined
    ELSE LET parts == Split(authHeader, 32) IN
         IF Len(parts) # 2 \/ parts[1] # BearerWord THEN Undefined
         ELSE Some(parts[2])

\* supabase.auth.getUser(token) of the identity provider: the user of the
\* token, or an error
getUser(token) ==
    IF token = Token1 THEN [user |-> Some("user-1"), error |-> ""]
    ELSE IF token = Token2 THEN [user |-> Some("user-2"), error |-> ""]
    ELSE [user |-> Undefined, error |-> "invalid JWT"]

\* the characters trim() of the validator strips
Whitespace == {9, 10, 11, 12, 13, 32}

RECURSIVE FirstKept(_, _)
\* the index of the first character from i on that is no whitespace
FirstKept(str, i) ==
    IF i > Len(str) \/ str[i] \notin Whitespace THEN i ELSE FirstKept(str, i + 1)

RECURSIVE LastKept(_, _)
\* the index of the last character up to i that is no whitespace
LastKept(str, i) ==
    IF i < 1 \/ str[i] \notin Whitespace THEN i ELSE LastKept(str, i - 1)

\* the sanitizer trim()
Trim(str) ==
    LET first == FirstKept(str, 1) IN
    IF first > Len(str) THEN <<>> ELSE SubSeq(str, first, LastKept(str, Len(str)))

\* isUUID()
IsUUID(id) == \E i \in 1..Len(Uuids) : Uuids[i] = id

FieldError(field, message) == [field |-> field, message |-> message]

\* the chain param('id').trim().notEmpty().isUUID()
ValidateId(id) ==
    IF IsUUID(id) THEN <<>>
    ELSE <<FieldError("id", "Secret ID must be a valid UUID")>>

\* the chain with a bound one character too wide
ValidateContent_OneMore(content) ==
    (IF Len(content) = 0
     THEN <<FieldError("content", "Secret content is required")>>
     ELSE <<>>)
    \o (IF Len(content) < 1 \/ Len(content) > MaxContentLength + 1
        THEN <<FieldError("content", "Secret content must be between 1 and 10000 characters")>>
        ELSE <<>>)

\* the chain body('content').trim().notEmpty().isLength({ min: 1, max: 10000 })
\* over the trimmed content
ValidateContent(content) ==
    (IF Len(content) = 0
     THEN <<FieldError("content", "Secret content is required")>>
     ELSE <<>>)
    \o (IF Len(content) < 1 \/ Len(content) > MaxContentLength
        THEN <<FieldError("content", "Secret content must be between 1 and 10000 characters")>>
        ELSE <<>>)

\* the errors of the validation chains of a route
ValidationErrors(route, id, content) ==
    (IF route \in {"get", "update", "delete"} THEN ValidateId(id) ELSE <<>>)
    \o (IF route \in {"create", "update"} THEN ValidateContent(content) ELSE <<>>)

-----------------------------------------------------------------------------
(* The store and the logger *)

\* a row of the table "secrets"
SecretRecord(id, userId, name, e, createdAt, updatedAt) ==
    [id |-> id, user_id |-> userId, name |-> name,
     encrypted_content |-> e.encryptedContent, iv |-> e.iv, auth_tag |-> e.authTag,
     created_at |-> createdAt, updated_at |-> updatedAt]

\* a query that leaves out .eq('user_id', userId)
RowsOf_AnyOwner(id, userId) == {r \in secrets : r.id = id}

\* .eq('id', id).eq('user_id', userId): the rows a query of the controllers
\* addresses
RowsOf(id, userId) == {r \in secrets : r.id = id /\ r.user_id = userId}

RECURSIVE OrderDesc(_)
\* .order('created_at', { ascending: false })
OrderDesc(rows) ==
    IF rows = {} THEN <<>>
    ELSE LET newest == CHOOSE r \in rows : \A q \in rows : q.created_at <= r.created_at
         IN  <<newest>> \o OrderDesc(rows \ {newest})

\* name || 'Untitled Secret' for a name of a request body
NameOrDefault(name) ==
    IF name = Undefined \/ name = Some(<<>>) THEN UntitledSecret ELSE name[1]

\* the message of the store's error
StoreError == "store error"

\* a line of the console, as log(level, module, message) of the logger builds
\* it: the template of the message and what is interpolated into it
Line(level, module, text, args) ==
    [level |-> level, module |-> module, text |-> text, args |-> args]

Arg(kind, value) == [kind |-> kind, value |-> value]

\* log(): a DEBUG line is written in development only
Written(lines) == SelectSeq(lines, LAMBDA l : l.level # "DEBUG" \/ nodeEnv = "development")

\* the message of the exception of the crypto library that decrypt catches
DecryptFailure(key, encryptedContent, ivHex, authTagHex) ==
    IF ~CipherivOk(key, BufferFromHex(ivHex)) THEN "Invalid initialization vector"
    ELSE IF ~SetAuthTagOk(BufferFromHex(authTagHex)) THEN "Invalid authentication tag length"
    ELSE IF ~UpdateHexOk(encryptedContent) THEN "The argument 'encoding' is invalid for data"
    ELSE "Unsupported state or unable to authenticate data"

\* the line encrypt writes
EncryptLines(out) ==
    IF out.threw
    THEN <<Line("ERROR", "EncryptionService", "Encryption failed: ",
                <<Arg("error", "Invalid key length")>>)>>
    ELSE <<Line("INFO", "EncryptionService", "Data encrypted successfully", <<>>)>>

\* a decrypt that writes what it decrypted
DecryptLines_WithPlaintext(row, out) ==
    IF out.threw
    THEN <<Line("ERROR", "EncryptionService", "Decryption failed: ",
                <<Arg("error", DecryptFailure(encryptionKey, row.encrypted_content,
                                              row.iv, row.auth_tag))>>)>>
    ELSE <<Line("INFO", "EncryptionService", "Data decrypted successfully: ",
                <<Arg("content", out.value)>>)>>

\* the line decrypt writes for a row
DecryptLines(row, out) ==
    IF out.threw
    THEN <<Line("ERROR", "EncryptionService", "Decryption failed: ",
                <<Arg("error", DecryptFailure(encryptionKey, row.encrypted_content,
                                              row.iv, row.auth_tag))>>)>>
    ELSE <<Line("INFO", "EncryptionService", "Data decrypted successfully", <<>>)>>

\* decrypt of the three columns of a row under the cached key
DecryptRow(row) == decrypt(encryptionKey, row.encrypted_content, row.iv, row.auth_tag)

\* the entry of a response for a row, content being what the entry shows
SecretResponse(row, content) ==
    [id |-> row.id,
     name |-> IF row.name = <<>> THEN UntitledSecret ELSE row.name,
     content |-> content,
     createdAt |-> row.created_at, updatedAt |-> row.updated_at]

\* a map that leaves out the content of a row it cannot decrypt
ListEntry_Blank(row) ==
    LET out == DecryptRow(row) IN
    SecretResponse(row, IF out.threw THEN <<>> ELSE out.value)

\* the body of the map of getAllSecrets for one row
ListEntry(row) ==
    LET out == DecryptRow(row) IN
    SecretResponse(row, IF out.threw THEN DecryptionErrorMarker ELSE out.value)

RECURSIVE ListLines(_)
\* the lines the map of getAllSecrets writes for the rows
ListLines(rows) ==
    IF rows = <<>> THEN <<>>
    ELSE LET row == Head(rows)
             out == DecryptRow(row)
         IN  DecryptLines(row, out)
             \o (IF out.threw
                 THEN <<Line("ERROR", "SecretsController", "Error decrypting secret : ",
                             <<Arg("secretId", row.id), Arg("error", out.message)>>)>>
                 ELSE <<>>)
             \o ListLines(Tail(rows))

-----------------------------------------------------------------------------
(* Requests and responses *)

Routes == {"list", "get", "create", "update", "delete", "unknown"}

IdRoutes == {"get", "update", "delete"}

BodyRoutes == {"create", "update"}

\* a request that express has just received
NewRequest(route) ==
    [pc |-> "authenticate", route |-> route, header |-> <<>>, user |-> "", id |-> "",
     name |-> Undefined, content |-> <<>>, by |-> "", status |-> 0, body |-> [success |-> TRUE],
     encrypts |-> 0, queries |-> 0]

Failure(error) == [success |-> FALSE, error |-> error]

\* a handler that sends its response and goes on without returning
Respond_AndNext(s, req, by, status, body) ==
    reqs' = [reqs EXCEPT ![s] = [req EXCEPT !.by = by, !.status = status, !.body = body]]

\* res.status(status).json(body) by the handler named by: the request is answered
Respond(s, req, by, status, body) ==
    reqs' = [reqs EXCEPT ![s] = [req EXCEPT !.pc = "done", !.by = by,
                                            !.status = status, !.body = body]]

\* Only updateSecret queries the store twice, so the steps of two requests
\* interleave in a way that matters only while one of them is between these
\* two queries: a request takes its steps while every other connection is
\* free or waits there, and its answer leaves before another step is taken.
Runnable(s) == \A t \in Slots \ {s} : reqs[t].pc \in {"idle", "updating"}

\* the requests in progress that will write to the store
PendingWrites ==
    Cardinality({s \in Slots : reqs[s].pc \notin {"idle", "done"} /\ reqs[s].route \in BodyRoutes})

\* the message of the SyntaxError of JSON.parse that express.json() passes on
JsonSyntaxError == "Unexpected token } in JSON at position 1"

\* the global error handler of server.ts: the body it answers with
GlobalErrorBody(message) ==
    Failure(IF nodeEnv = "production" THEN "Internal server error" ELSE message)

-----------------------------------------------------------------------------
(* The request pipeline: server.ts, routes/secrets.ts *)

InitApi ==
    /\ processEnv = EnvVars(PatternKeyHex, "set")
    /\ dotEnvFile = EnvVars(<<>>, "")
    /\ phase = "listening"
    /\ encryptionKey = BufferFromHex(PatternKeyHex)
    /\ ivLog = <<>>
    /\ lastEnc = NoEnc
    /\ result = NoResult
    /\ exitError = ""
    /\ nodeEnv \in {"production", "development"}
    /\ traffic = "usual"
    /\ secrets = {}
    /\ dbTime = 0
    /\ reqs = [s \in Slots |-> Idle]
    /\ logged = <<>>
    /\ damaged = {}
    /\ modal = ModalClosed

\* A request arrives on a free connection.  express.json() parses the body
\* and passes a body that is no JSON to the global error handler; the request
\* is logged; a path outside /api/secrets ends in the 404 handler.
Receive(s) ==
    /\ phase = "listening"
    /\ Runnable(s)
    /\ reqs[s] = Idle
    /\ s = "c1" \/ reqs["c1"].pc = "updating"
    /\ \E route \in (IF traffic = "longest" THEN BodyRoutes ELSE Routes) :
       \E malformed \in (IF route \in BodyRoutes THEN BOOLEAN ELSE {FALSE}) :
          /\ route \in BodyRoutes => dbTime + PendingWrites < MaxWrites
          /\ IF malformed
             THEN /\ Respond(s, NewRequest(route), "errorHandler", 500,
                             GlobalErrorBody(JsonSyntaxError))
                  /\ logged' = Written(<<Line("ERROR", "Server", "Unhandled error: ",
                                              <<Arg("error", JsonSyntaxError),
                                                Arg("stack", JsonSyntaxError)>>)>>)
             ELSE /\ logged' = Written(<<Line("INFO", "Server", "method path - ip",
                                              <<Arg("route", route)>>)>>)
                  /\ IF route = "unknown"
                     THEN Respond(s, NewRequest(route), "notFound", 404,
                                  Failure("Route not found"))
                     ELSE reqs' = [reqs EXCEPT ![s] = NewRequest(route)]
    /\ UNCHANGED <<secrets, dbTime, damaged, nodeEnv, traffic>>
    /\ UNCHANGED <<serviceVars, uiVars>>

\* authenticate of auth.ts; idp is whether the identity provider answers
authenticate(s) ==
    LET req == reqs[s] IN
    /\ Runnable(s)
    /\ req.pc = "authenticate"
    /\ \E header \in AuthHeaders, idp \in {"answers", "fails"} :
          LET token == extractBearerToken(header)
              asked == [req EXCEPT !.header = header]
          IN
          IF token = Undefined \/ token = Some(<<>>)
          THEN /\ Respond(s, asked, "authenticate", 401,
                          Failure("Authentication required. Please provide a valid access token."))
               /\ logged' = Written(<<Line("WARN", "AuthMiddleware",
                                           "Missing or invalid Authorization header", <<>>)>>)
          ELSE IF idp = "fails"
          THEN /\ Respond(s, asked, "authenticate", 500,
                          Failure("Internal server error during authentication."))
               /\ logged' = Written(<<Line("ERROR", "AuthMiddleware", "Authentication error: ",
                                           <<Arg("error", "fetch failed")>>)>>)
          ELSE LET answer == getUser(token[1]) IN
               IF answer.error # "" \/ answer.user = Undefined
               THEN /\ Respond(s, asked, "authenticate", 401,
                               Failure("Invalid or expired access token."))
                    /\ logged' = Written(<<Line("WARN", "AuthMiddleware",
                                                "Token verification failed: ",
                                                <<Arg("error", answer.error)>>)>>)
               ELSE /\ reqs' = [reqs EXCEPT ![s] =
                                   [asked EXCEPT !.user = answer.user[1],
                                                 !.pc = IF req.route = "list"
                                                        THEN "controller" ELSE "validate"]]
                    /\ logged' = Written(<<Line("DEBUG", "AuthMiddleware", "User authenticated: ",
                                                <<Arg("email", answer.user[1])>>)>>)
    /\ UNCHANGED <<secrets, dbTime, damaged, nodeEnv, traffic>>
    /\ UNCHANGED <<serviceVars, uiVars>>

\* the validation chains of the route, then handleValidationErrors: the
\* sanitizer trim() replaces the content of the body by the trimmed one
handleValidationErrors(s) ==
    LET req == reqs[s] IN
    /\ Runnable(s)
    /\ req.pc = "validate"
    /\ \E id \in (IF req.route \in IdRoutes THEN IdParams ELSE {""}),
          body \in (IF req.route \in BodyRoutes THEN Bodies ELSE {Body(Undefined, <<>>)}) :
          \E trimmed \in {Trim(body.content)} :
          LET name == body.name
              errorMessages == ValidationErrors(req.route, id, trimmed)
              sent == [req EXCEPT !.id = id, !.name = name, !.content = trimmed]
          IN
          IF errorMessages # <<>>
          THEN /\ Respond(s, sent, "validation", 400,
                          [success |-> FALSE, error |-> "Validation failed",
                           details |-> errorMessages])
               /\ logged' = Written(<<Line("WARN", "ValidationMiddleware", "Validation failed: ",
                                           <<Arg("details", errorMessages)>>)>>)
          ELSE /\ reqs' = [reqs EXCEPT ![s] = [sent EXCEPT !.pc = "controller"]]
               /\ logged' = <<>>
    /\ UNCHANGED <<secrets, dbTime, damaged, nodeEnv, traffic>>
    /\ UNCHANGED <<serviceVars, uiVars>>

-----------------------------------------------------------------------------
(* The controllers: secretsController.ts.  Each action runs a controller up
   to its answer or to its next query of the store; dbOk is whether the
   store answers the query without an error. *)

getAllSecrets(s) ==
    LET req == reqs[s]
        asked == [req EXCEPT !.queries = @ + 1]
    IN
    /\ Runnable(s)
    /\ req.pc = "controller" /\ req.route = "list"
    /\ \E dbOk \in BOOLEAN :
          LET first == Line("DEBUG", "SecretsController", "Fetching secrets for user: ",
                            <<Arg("userId", req.user)>>)
          IN
          IF ~dbOk
          THEN /\ Respond(s, asked, "controller", 500, Failure("Failed to fetch secrets"))
               /\ logged' = Written(<<first, Line("ERROR", "SecretsController",
                                                  "Error fetching secrets: ",
                                                  <<Arg("error", StoreError)>>)>>)
          ELSE LET rows == OrderDesc({r \in secrets : r.user_id = req.user})
                   decryptedSecrets == [i \in 1..Len(rows) |-> ListEntry(rows[i])]
               IN  /\ Respond(s, asked, "controller", 200,
                              [success |-> TRUE, data |-> decryptedSecrets])
                   /\ logged' = Written(<<first>> \o ListLines(rows)
                                        \o <<Line("INFO", "SecretsController",
                                                  "Retrieved  secrets for user ",
                                                  <<Arg("count", Len(rows)),
                                                    Arg("userId", req.user)>>)>>)
    /\ UNCHANGED <<secrets, dbTime, damaged, nodeEnv, traffic>>
    /\ UNCHANGED <<serviceVars, uiVars>>

getSecretById(s) ==
    LET req == reqs[s]
        asked == [req EXCEPT !.queries = @ + 1]
    IN
    /\ Runnable(s)
    /\ req.pc = "controller" /\ req.route = "get"
    /\ \E dbOk \in BOOLEAN :
          LET first == Line("DEBUG", "SecretsController", "Fetching secret  for user ",
                            <<Arg("secretId", req.id), Arg("userId", req.user)>>)
              found == IF dbOk THEN RowsOf(req.id, req.user) ELSE {}
          IN
          IF found = {}
          THEN /\ Respond(s, asked, "controller", 404, Failure("Secret not found"))
               /\ logged' = Written(<<first, Line("WARN", "SecretsController",
                                                  "Secret  not found for user ",
                                                  <<Arg("secretId", req.id),
                                                    Arg("userId", req.user)>>)>>)
          ELSE LET secret == CHOOSE r \in found : TRUE
                   out == DecryptRow(secret)
               IN  IF out.threw
                   THEN /\ Respond(s, asked, "controller", 500, Failure("Internal server error"))
                        /\ logged' = Written(<<first>> \o DecryptLines(secret, out)
                                             \o <<Line("ERROR", "SecretsController",
                                                       "Error in getSecretById: ",
                                                       <<Arg("error", out.message)>>)>>)
                   ELSE /\ Respond(s, asked, "controller", 200,
                                   [success |-> TRUE,
                                    data |-> SecretResponse(secret, out.value)])
                        /\ logged' = Written(<<first>> \o DecryptLines(secret, out))
    /\ UNCHANGED <<secrets, dbTime, damaged, nodeEnv, traffic>>
    /\ UNCHANGED <<serviceVars, uiVars>>

\* an insert the store applies although it reports an error
createSecret_InsertThenFail(s) ==
    LET req == reqs[s] IN
    /\ Runnable(s)
    /\ req.pc = "controller" /\ req.route = "create"
    /\ \E out \in {encrypt(encryptionKey, req.content, RandomBytesAt(dbTime + 1))} :
          /\ secrets' = secrets \cup {SecretRecord(Uuids[dbTime + 1], req.user,
                                                  NameOrDefault(req.name), out.value,
                                                  dbTime + 1, dbTime + 1)}
          /\ dbTime' = dbTime + 1
          /\ Respond(s, [req EXCEPT !.encrypts = @ + 1, !.queries = @ + 1],
                     "controller", 500, Failure("Failed to create secret"))
          /\ logged' = Written(EncryptLines(out))
    /\ UNCHANGED <<damaged, nodeEnv, traffic>>
    /\ UNCHANGED <<serviceVars, uiVars>>

createSecret(s) ==
    LET req == reqs[s] IN
    /\ Runnable(s)
    /\ req.pc = "controller" /\ req.route = "create"
    /\ \E out \in {encrypt(encryptionKey, req.content, RandomBytesAt(dbTime + 1))},
          dbOk \in BOOLEAN :
          LET first == Line("DEBUG", "SecretsController", "Creating new secret for user ",
                            <<Arg("userId", req.user)>>)
              called == [req EXCEPT !.encrypts = @ + 1]
              asked == [called EXCEPT !.queries = @ + 1]
          IN
          IF out.threw
          THEN /\ Respond(s, called, "controller", 500, Failure("Internal server error"))
               /\ logged' = Written(<<first>> \o EncryptLines(out)
                                    \o <<Line("ERROR", "SecretsController",
                                              "Error in createSecret: ",
                                              <<Arg("error", out.message)>>)>>)
               /\ UNCHANGED <<secrets, dbTime>>
          ELSE IF ~dbOk
          THEN /\ Respond(s, asked, "controller", 500, Failure("Failed to create secret"))
               /\ logged' = Written(<<first>> \o EncryptLines(out)
                                    \o <<Line("ERROR", "SecretsController",
                                              "Error creating secret: ",
                                              <<Arg("error", StoreError)>>)>>)
               /\ UNCHANGED <<secrets, dbTime>>
          ELSE LET newSecret == SecretRecord(Uuids[dbTime + 1], req.user,
                                             NameOrDefault(req.name), out.value,
                                             dbTime + 1, dbTime + 1)
               IN  /\ secrets' = secrets \cup {newSecret}
                   /\ dbTime' = dbTime + 1
                   /\ Respond(s, asked, "controller", 201,
                              [success |-> TRUE,
                               data |-> [id |-> newSecret.id, name |-> newSecret.name,
                                         content |-> req.content,
                                         createdAt |-> newSecret.created_at,
                                         updatedAt |-> newSecret.updated_at],
                               message |-> "Secret created successfully"])
                   /\ logged' = Written(<<first>> \o EncryptLines(out)
                                        \o <<Line("INFO", "SecretsController",
                                                  "Secret created successfully: ",
                                                  <<Arg("secretId", newSecret.id)>>)>>)
    /\ UNCHANGED <<damaged, nodeEnv, traffic>>
    /\ UNCHANGED <<serviceVars, uiVars>>

\* updateSecret up to the answer of its first query: does the row exist
updateSecret_Fetch(s) ==
    LET req == reqs[s]
        asked == [req EXCEPT !.queries = @ + 1]
    IN
    /\ Runnable(s)
    /\ req.pc = "controller" /\ req.route = "update"
    /\ \E dbOk \in BOOLEAN :
          LET first == Line("DEBUG", "SecretsController", "Updating secret  for user ",
                            <<Arg("secretId", req.id), Arg("userId", req.user)>>)
              existingSecret == IF dbOk THEN RowsOf(req.id, req.user) ELSE {}
          IN
          IF existingSecret = {}
          THEN /\ Respond(s, asked, "controller", 404, Failure("Secret not found"))
               /\ logged' = Written(<<first, Line("WARN", "SecretsController",
                                                  "Secret  not found for user ",
                                                  <<Arg("secretId", req.id),
                                                    Arg("userId", req.user)>>)>>)
          ELSE /\ reqs' = [reqs EXCEPT ![s] = [asked EXCEPT !.pc = "updating"]]
               /\ logged' = Written(<<first>>)
    /\ UNCHANGED <<secrets, dbTime, damaged, nodeEnv, traffic>>
    /\ UNCHANGED <<serviceVars, uiVars>>

\* an update that leaves the auth_tag column as it was
UpdateData_KeepsTag(row, e, name, now) ==
    [row EXCEPT !.encrypted_content = e.encryptedContent,
                !.iv = e.iv,
                !.updated_at = now,
                !.name = IF name # Undefined THEN NameOrDefault(name) ELSE @]

\* an update that also stamps created_at
UpdateData_StampsCreated(row, e, name, now) ==
    [row EXCEPT !.encrypted_content = e.encryptedContent,
                !.iv = e.iv,
                !.auth_tag = e.authTag,
                !.created_at = now,
                !.updated_at = now,
                !.name = IF name # Undefined THEN NameOrDefault(name) ELSE @]

\* the columns the update of updateSecret sets in a row
UpdateData(row, e, name, now) ==
    [row EXCEPT !.encrypted_content = e.encryptedContent,
                !.iv = e.iv,
                !.auth_tag = e.authTag,
                !.updated_at = now,
                !.name = IF name # Undefined THEN NameOrDefault(name) ELSE @]

\* an update that inserts the row when no row matches
updateSecret_Upsert(s) ==
    LET req == reqs[s] IN
    /\ Runnable(s)
    /\ req.pc = "updating"
    /\ \E out \in {encrypt(encryptionKey, req.content, RandomBytesAt(dbTime + 1))} :
          LET target == RowsOf(req.id, req.user)
              row == IF target = {}
                     THEN SecretRecord(req.id, req.user, NameOrDefault(req.name),
                                       out.value, dbTime + 1, dbTime + 1)
                     ELSE CHOOSE r \in target : TRUE
              updatedSecret == UpdateData(row, out.value, req.name, dbTime + 1)
          IN  /\ secrets' = (secrets \ target) \cup {updatedSecret}
              /\ dbTime' = dbTime + 1
              /\ damaged' = damaged \ {req.id}
              /\ Respond(s, [req EXCEPT !.encrypts = @ + 1, !.queries = @ + 1],
                         "controller", 200,
                         [success |-> TRUE,
                          data |-> [id |-> updatedSecret.id, name |-> updatedSecret.name,
                                    content |-> req.content,
                                    createdAt |-> updatedSecret.created_at,
                                    updatedAt |-> updatedSecret.updated_at],
                          message |-> "Secret updated successfully"])
              /\ logged' = Written(EncryptLines(out))
    /\ UNCHANGED <<nodeEnv, traffic>>
    /\ UNCHANGED <<serviceVars, uiVars>>

\* updateSecret from encrypt on: the update of the row and the answer;
\* .single() is an error when the update returned no row
updateSecret_Update(s) ==
    LET req == reqs[s] IN
    /\ Runnable(s)
    /\ req.pc = "updating"
    /\ \E out \in {encrypt(encryptionKey, req.content, RandomBytesAt(dbTime + 1))},
          dbOk \in BOOLEAN :
          LET called == [req EXCEPT !.encrypts = @ + 1]
              asked == [called EXCEPT !.queries = @ + 1]
              target == RowsOf(req.id, req.user)
          IN
          IF out.threw
          THEN /\ Respond(s, called, "controller", 500, Failure("Internal server error"))
               /\ logged' = Written(EncryptLines(out)
                                    \o <<Line("ERROR", "SecretsController",
                                              "Error in updateSecret: ",
                                              <<Arg("error", out.message)>>)>>)
               /\ UNCHANGED <<secrets, dbTime, damaged>>
          ELSE IF ~dbOk \/ target = {}
          THEN /\ Respond(s, asked, "controller", 500, Failure("Failed to update secret"))
               /\ logged' = Written(EncryptLines(out)
                                    \o <<Line("ERROR", "SecretsController",
                                              "Error updating secret: ",
                                              <<Arg("error", StoreError)>>)>>)
               /\ UNCHANGED <<secrets, dbTime, damaged>>
          ELSE LET row == CHOOSE r \in target : TRUE
                   updatedSecret == UpdateData(row, out.value, req.name, dbTime + 1)
               IN  /\ secrets' = (secrets \ {row}) \cup {updatedSecret}
                   /\ dbTime' = dbTime + 1
                       /\ damaged' = damaged \ {row.id}
                   /\ Respond(s, asked, "controller", 200,
                              [success |-> TRUE,
                               data |-> [id |-> updatedSecret.id, name |-> updatedSecret.name,
                                         content |-> req.content,
                                         createdAt |-> updatedSecret.created_at,
                                         updatedAt |-> updatedSecret.updated_at],
                               message |-> "Secret updated successfully"])
                   /\ logged' = Written(EncryptLines(out)
                                        \o <<Line("INFO", "SecretsController",
                                                  "Secret updated successfully: ",
                                                  <<Arg("secretId", req.id)>>)>>)
    /\ UNCHANGED <<nodeEnv, traffic>>
    /\ UNCHANGED <<serviceVars, uiVars>>

deleteSecret(s) ==
    LET req == reqs[s]
        asked == [req EXCEPT !.queries = @ + 1]
    IN
    /\ Runnable(s)
    /\ req.pc = "controller" /\ req.route = "delete"
    /\ \E dbOk \in BOOLEAN :
          LET first == Line("DEBUG", "SecretsController", "Deleting secret  for user ",
                            <<Arg("secretId", req.id), Arg("userId", req.user)>>)
          IN
          IF ~dbOk
          THEN /\ Respond(s, asked, "controller", 500, Failure("Failed to delete secret"))
               /\ logged' = Written(<<first, Line("ERROR", "SecretsController",
                                                  "Error deleting secret: ",
                                                  <<Arg("error", StoreError)>>)>>)
               /\ UNCHANGED <<secrets, damaged>>
          ELSE /\ secrets' = secrets \ RowsOf(req.id, req.user)
               /\ damaged' = IF RowsOf(req.id, req.user) = {} THEN damaged
                             ELSE damaged \ {req.id}
               /\ Respond(s, asked, "controller", 200,
                          [success |-> TRUE, message |-> "Secret deleted successfully"])
               /\ logged' = Written(<<first, Line("INFO", "SecretsController",
                                                  "Secret deleted successfully: ",
                                                  <<Arg("secretId", req.id)>>)>>)
    /\ UNCHANGED <<dbTime, nodeEnv, traffic>>
    /\ UNCHANGED <<serviceVars, uiVars>>

\* the answer has left: the connection is free again
Finish(s) ==
    /\ reqs[s].pc = "done"
    /\ reqs' = [reqs EXCEPT ![s] = Idle]
    /\ logged' = <<>>
    /\ UNCHANGED <<secrets, dbTime, damaged, nodeEnv, traffic>>
    /\ UNCHANGED <<serviceVars, uiVars>>

\* the storage alters a stored row: one bit of its auth_tag column flips
Corrupt ==
    /\ \A s \in Slots : reqs[s].pc \in {"idle", "updating"}
    /\ \E row \in secrets :
          /\ row.id \notin damaged
          /\ secrets' = (secrets \ {row})
                           \cup {[row EXCEPT !.auth_tag = FlipInHex(row.auth_tag, 1, 0)]}
          /\ damaged' = damaged \cup {row.id}
    /\ logged' = <<>>
    /\ UNCHANGED <<dbTime, reqs, nodeEnv, traffic>>
    /\ UNCHANGED <<serviceVars, uiVars>>

NextApi ==
    \/ \E s \in Slots :
          \/ Receive(s)
          \/ authenticate(s)
          \/ handleValidationErrors(s)
          \/ getAllSecrets(s)
          \/ getSecretById(s)
          \/ createSecret(s)
          \/ updateSecret_Fetch(s)
          \/ updateSecret_Update(s)
          \/ deleteSecret(s)
          \/ Finish(s)
    \/ Corrupt

SpecApi == InitApi /\ [][NextApi]_vars

-----------------------------------------------------------------------------
(* The write path under the longest contents *)

InitLongest ==
    /\ processEnv = EnvVars(PatternKeyHex, "set")
    /\ dotEnvFile = EnvVars(<<>>, "")
    /\ phase = "listening"
    /\ encryptionKey = BufferFromHex(PatternKeyHex)
    /\ ivLog = <<>>
    /\ lastEnc = NoEnc
    /\ result = NoResult
    /\ exitError = ""
    /\ nodeEnv \in {"production", "development"}
    /\ traffic = "longest"
    /\ secrets = {}
    /\ dbTime = 0
    /\ reqs = [s \in Slots |-> Idle]
    /\ logged = <<>>
    /\ damaged = {}
    /\ modal = ModalClosed

NextLongest ==
    \E s \in Slots :
        \/ Receive(s)
        \/ authenticate(s)
        \/ handleValidationErrors(s)
        \/ createSecret(s)
        \/ updateSecret_Fetch(s)
        \/ updateSecret_Update(s)
        \/ Finish(s)

SpecLongest == InitLongest /\ [][NextLongest]_vars

-----------------------------------------------------------------------------
(* The dashboard page and its save modal: SecretModal.tsx *)

\* longest run of openings of the modal
MaxOpens == 2

\* longest run of onSave calls
MaxSaves == 2

\* the longest content handleSubmit passes on
MaxSecretLength == 10000

\* the characters String.prototype.trim() strips
JsWhitespace ==
    {9, 10, 11, 12, 13, 32, 160, 5760, 8232, 8233, 8239, 8287, 12288, 65279}
        \cup 8192..8202

\* !content.trim()
IsBlank(content) == \A i \in 1..Len(content) : content[i] \in JsWhitespace

\* what the user has in the text area: '', ' ', a no-break space, 'a',
\* ' a ', 10,000 and 10,001 times 'a', and a space before 10,000 times 'a'
ModalContents ==
    {<<>>, <<32>>, <<160>>, <<97>>, <<32, 97, 32>>,
     Rep(97, MaxSecretLength), Rep(97, MaxSecretLength + 1),
     <<32>> \o Rep(97, MaxSecretLength)}

\* the contents of the secrets the page lists
ListedContents == {<<97>>, Rep(97, MaxSecretLength)}

\* the messages of the errors onSave rejects with
SaveErrors == {"", "Network error"}

\* handleCloseModal of the page, which the modal has as onClose
handleCloseModal(m) == [m EXCEPT !.isOpen = FALSE, !.mode = "create"]

\* a handleClose that does not look at isSaving
handleClose_Always(m, isSaving) ==
    handleCloseModal([m EXCEPT !.content = <<>>, !.error = Undefined,
                               !.onCloseCalls = @ + 1])

\* handleClose of the render in which isSaving had the given value
handleClose(m, isSaving) ==
    IF ~isSaving
    THEN handleCloseModal([m EXCEPT !.content = <<>>, !.error = Undefined,
                                    !.onCloseCalls = @ + 1])
    ELSE m

\* the page opens the modal to add a secret; the effect of the modal clears
\* the content and the error
handleAddSecret ==
    /\ ~modal.isOpen
    /\ modal.opened < MaxOpens
    /\ modal' = [modal EXCEPT !.isOpen = TRUE, !.mode = "create",
                              !.content = <<>>, !.error = Undefined,
                              !.opened = @ + 1, !.event = "add"]
    /\ UNCHANGED <<serviceVars, apiVars>>

\* the page opens the modal to edit a listed secret; the effect of the modal
\* sets the content to the secret's and clears the error
handleEditSecret ==
    /\ ~modal.isOpen
    /\ modal.opened < MaxOpens
    /\ \E secret \in ListedContents :
          modal' = [modal EXCEPT !.isOpen = TRUE, !.mode = "edit",
                                 !.content = secret, !.error = Undefined,
                                 !.opened = @ + 1, !.event = "edit"]
    /\ UNCHANGED <<serviceVars, apiVars>>

\* onChange of the text area
onChange ==
    /\ modal.isOpen
    /\ \E value \in ModalContents :
          modal' = [modal EXCEPT !.content = value, !.event = "change"]
    /\ UNCHANGED <<serviceVars, apiVars>>

\* the submit button, which has isLoading = isSaving, submits the form
SubmitEnabled == modal.isOpen /\ ~modal.isSaving

\* handleSubmit up to its await: the two checks, then setIsSaving(true) and
\* the call of onSave; the pending save keeps the isSaving of its render
handleSubmit ==
    /\ SubmitEnabled
    /\ IF IsBlank(modal.content)
       THEN modal' = [modal EXCEPT !.error = Some("Secret content cannot be empty"),
                                   !.event = "submit"]
       ELSE IF Len(modal.content) > MaxSecretLength
       THEN modal' = [modal EXCEPT
                        !.error = Some("Secret content is too long (max 10,000 characters)"),
                        !.event = "submit"]
       ELSE /\ modal.onSaveCalls < MaxSaves
            /\ modal' = [modal EXCEPT
                           !.error = Undefined,
                           !.isSaving = TRUE,
                           !.saving = [pending |-> TRUE, content |-> modal.content,
                                       isSaving |-> modal.isSaving],
                           !.onSaveCalls = @ + 1,
                           !.event = "submit"]
    /\ UNCHANGED <<serviceVars, apiVars>>

\* onSave resolves: handleSubmit goes on with the handleClose of its render,
\* then setIsSaving(false)
onSave_Resolves ==
    /\ modal.saving.pending
    /\ modal' = [handleClose(modal, modal.saving.isSaving) EXCEPT
                    !.isSaving = FALSE, !.saving = NoSave, !.event = "resolved"]
    /\ UNCHANGED <<serviceVars, apiVars>>

\* onSave rejects: handleSubmit goes on in its catch, then setIsSaving(false)
onSave_Rejects ==
    /\ modal.saving.pending
    /\ \E message \in SaveErrors :
          modal' = [modal EXCEPT
                      !.error = Some(IF message = "" THEN "Failed to save secret"
                                                    ELSE message),
                      !.isSaving = FALSE, !.saving = NoSave, !.event = "rejected"]
    /\ UNCHANGED <<serviceVars, apiVars>>

\* the Cancel button: handleClose of the current render
Cancel ==
    /\ modal.isOpen
    /\ modal' = [handleClose(modal, modal.isSaving) EXCEPT !.event = "cancel"]
    /\ UNCHANGED <<serviceVars, apiVars>>

\* the Modal asks to close (its onClose): handleClose of the current render
Modal_onClose ==
    /\ modal.isOpen
    /\ modal' = [handleClose(modal, modal.isSaving) EXCEPT !.event = "modalClose"]
    /\ UNCHANGED <<serviceVars, apiVars>>

\* the server is up and the page is mounted
InitModal == InitApi /\ nodeEnv = "production"

NextModal ==
    \/ handleAddSecret
    \/ handleEditSecret
    \/ onChange
    \/ handleSubmit
    \/ onSave_Resolves
    \/ onSave_Rejects
    \/ Cancel
    \/ Modal_onClose

SpecModal == InitModal /\ [][NextModal]_vars

-----------------------------------------------------------------------------
(* State the properties speak of *)

\* decrypt has just been called with what the choice describes
Decrypted(origin, tamper) ==
    /\ result.op = "decrypt"
    /\ result.choice.origin = origin
    /\ result.choice.tamper = tamper

\* the modules have just been loaded and the Supabase client was constructed,
\* so the EncryptionService constructor ran
ServiceConstructed == phase \in {"imported", "exited"} /\ processEnv.SUPABASE_URL # ""

\* the EncryptionService constructor threw, which ended the process
KeyInitFailed ==
    /\ phase = "exited"
    /\ exitError \in {"ENCRYPTION_KEY is not set in environment variables",
                      "Encryption key must be 32 bytes (64 hex characters)"}

\* a string of exactly 64 hex digits
IsHexKey(key) == Len(key) = 2 * keyLength /\ IsValidHex(key)

-----------------------------------------------------------------------------
(* Properties *)

C2_TamperDetection ==
    Decrypted("own", "flip") => result.out.threw /\ result.out = DecryptError

C2_Witness ==
    /\ Decrypted("own", "flip")
    /\ result.choice.field = "iv"
    /\ result.choice.plaintext # <<>>
    /\ result.out.threw

\* C3: decrypt raises the decryption error whenever one of its arguments is
\* no valid hex string or the iv or the tag does not decode to 16 bytes.
C3_MalformedRejected ==
    result.op = "decrypt" =>
        LET input == InputOf(result.choice) IN
        (\/ ~IsValidHex(input.encryptedContent)
         \/ ~IsValidHex(input.iv)
         \/ ~IsValidHex(input.authTag)
         \/ Len(BufferFromHex(input.iv)) # ivLength
         \/ Len(BufferFromHex(input.authTag)) # tagLength)
        => result.out.threw

\* C4: an envelope produced under another key never decrypts: decrypt raises
\* the decryption error.
C4_KeyIsolation ==
    Decrypted("foreign", "none") => result.out.threw /\ result.out = DecryptError

C4_Witness ==
    /\ Decrypted("foreign", "none")
    /\ result.choice.key # encryptionKey
    /\ result.choice.plaintext # <<>>
    /\ result.out.threw

\* C5: the construction of the service fails exactly when ENCRYPTION_KEY is
\* unset or empty or Buffer.from(key, 'hex') is not 32 bytes long; a key of 64
\* hex digits, the all-zero key included, is accepted and cached as decoded.
C5_KeyLengthEnforcement ==
    ServiceConstructed =>
        LET key == processEnv.ENCRYPTION_KEY IN
        /\ KeyInitFailed <=> (key = <<>> \/ Len(BufferFromHex(key)) # keyLength)
        /\ IsHexKey(key) => ~KeyInitFailed /\ encryptionKey = BufferFromHex(key)

C5_Witness ==
    /\ ServiceConstructed
    /\ KeyInitFailed
    /\ Len(BufferFromHex(processEnv.ENCRYPTION_KEY)) = keyLength + 1

\* C6: the construction of the service fails for every ENCRYPTION_KEY that
\* holds a character that is no hex digit.
C6_NonHexKeyRejected ==
    (/\ ServiceConstructed
     /\ \E i \in 1..Len(processEnv.ENCRYPTION_KEY) : Unhex(processEnv.ENCRYPTION_KEY[i]) < 0)
    => KeyInitFailed

\* C7: while the server listens or a call of the service runs, the cached key
\* is present and 32 bytes long and no initialisation error occurred; a call
\* runs only while the server listens.
C7_FatalInitialisation ==
    /\ (phase = "listening" \/ result # NoResult) =>
          Len(encryptionKey) = keyLength /\ exitError = ""
    /\ result # NoResult => phase = "listening"
    /\ exitError # "" => phase = "exited"

C7_Witness ==
    /\ phase = "listening"
    /\ result.op = "encrypt"
    /\ Len(encryptionKey) = keyLength

\* C8: with a key of 64 hex digits and the Supabase variables given in the
\* .env file only, the process does not end before it listens.
C8_StartsFromDotEnv ==
    (/\ IsHexKey(dotEnvFile.ENCRYPTION_KEY)
     /\ dotEnvFile.SUPABASE_URL # ""
     /\ dotEnvFile.SUPABASE_SERVICE_KEY # "")
    => phase # "exited"

\* C9: once the key is cached, no step changes it.
C9_KeyImmutable == [][encryptionKey # <<>> => encryptionKey' = encryptionKey]_vars

C9_Witness ==
    /\ encryptionKey # <<>>
    /\ Len(ivLog) >= 1
    /\ result.op = "generate"

\* C10 as claimed: no nonce is returned by two encrypt calls.
C10_NonceNeverRepeats ==
    \A i, j \in 1..Len(ivLog) : i # j => ivLog[i].iv # ivLog[j].iv

\* C10 as amended: the nonce of every encrypt call is the hex encoding of the
\* 16 bytes the random source returned in that call, so two calls return the
\* same nonce only when the random source returned the same bytes twice.
C10_NonceIsTheRandomDraw ==
    /\ (result.op = "encrypt" /\ ~result.out.threw) =>
          LET last == ivLog[Len(ivLog)] IN
          /\ result.out.value.iv = last.iv
          /\ Len(last.iv) = 2 * ivLength
          /\ BufferFromHex(last.iv) = last.random
    /\ \A i, j \in 1..Len(ivLog) :
          ivLog[i].iv = ivLog[j].iv <=> ivLog[i].random = ivLog[j].random

C10_Witness ==
    /\ Len(ivLog) >= 2
    /\ ivLog[1].iv # ivLog[2].iv
    /\ lastEnc.set /\ lastEnc.envelope.iv = ivLog[Len(ivLog)].iv

\* C11: every result of encrypt is three hex strings: the ciphertext decodes
\* to exactly as many bytes as the UTF-8 encoding of the plaintext has, the
\* nonce to exactly 16 bytes and the tag to exactly 16 bytes.
C11_EnvelopeFraming ==
    (result.op = "encrypt" /\ ~result.out.threw) =>
        LET e == result.out.value IN
        /\ DOMAIN e = {"encryptedContent", "iv", "authTag"}
        /\ IsValidHex(e.encryptedContent) /\ IsValidHex(e.iv) /\ IsValidHex(e.authTag)
        /\ Len(BufferFromHex(e.encryptedContent)) = Len(Utf8Encode(result.plaintext))
        /\ Len(BufferFromHex(e.iv)) = ivLength
        /\ Len(BufferFromHex(e.authTag)) = tagLength

C11_Witness ==
    /\ result.op = "encrypt"
    /\ ~result.out.threw
    /\ result.plaintext = <<233>>
    /\ Len(result.out.value.encryptedContent) = 4

C23_GeneratedKeyAccepted ==
    result.op = "generate" =>
        LET key == result.out.value IN
        /\ ~result.out.threw
        /\ Len(key) = 2 * keyLength
        /\ IsValidHex(key)
        /\ Len(BufferFromHex(key)) = keyLength
        /\ ~getEncryptionKey(key).threw

\* a generated key whose first byte is below 16, written with a leading zero
C23_Witness ==
    /\ result.op = "generate"
    /\ result.out.value[1] = 48
    /\ Len(result.out.value) = 2 * keyLength

-----------------------------------------------------------------------------
(* Properties of the HTTP API *)

\* the request of connection s was answered by the controller of the route
Answered(s, route) ==
    /\ reqs[s].pc = "done"
    /\ reqs[s].route = route
    /\ reqs[s].by = "controller"

\* the three envelope columns of a row
EnvelopeOf(row) == Envelope(row.encrypted_content, row.iv, row.auth_tag)

\* the three columns of the row are what one encrypt call returns for the
\* plaintext
SealedBy(row, plaintext) ==
    LET out == encrypt(encryptionKey, plaintext, BufferFromHex(row.iv)) IN
    ~out.threw /\ out.value = EnvelopeOf(row)

\* C12: in every state that createSecret, updateSecret and deleteSecret
\* requests lead to, in any interleaving, every row the storage did not alter
\* decrypts under the process key, and its three columns are together what
\* one encrypt call returns for the decrypted plaintext.
C12_StoredEnvelopeIntegrity ==
    \A row \in secrets :
        row.id \notin damaged =>
            LET out == DecryptRow(row) IN
            ~out.threw /\ SealedBy(row, out.value)

C12_Witness ==
    \E row \in secrets :
        /\ row.updated_at > row.created_at
        /\ row.id \notin damaged
        /\ DecryptRow(row) = Returned(<<233>>)
        /\ \E s \in Slots : Answered(s, "update") /\ reqs[s].status = 200

\* C13: when the store answers the query of getAllSecrets, the response is
\* 200 with one entry per row of the user, newest first; the entry of a row
\* that does not decrypt has the content "[Decryption Error]", the entry of
\* every other row the plaintext its envelope seals.  The only other answer
\* of getAllSecrets is the 500 of a failed query.
C13_ListIsolation ==
    \A s \in Slots :
        Answered(s, "list") =>
            IF reqs[s].status = 200
            THEN LET data == reqs[s].body.data
                     rows == {r \in secrets : r.user_id = reqs[s].user}
                 IN  /\ Len(data) = Cardinality(rows)
                     /\ \A i, j \in 1..Len(data) :
                            i < j => data[i].createdAt > data[j].createdAt
                     /\ \A i \in 1..Len(data) :
                            \E row \in rows :
                               /\ row.id = data[i].id
                               /\ IF DecryptRow(row).threw
                                  THEN data[i].content = DecryptionErrorMarker
                                  ELSE SealedBy(row, data[i].content)
            ELSE reqs[s].status = 500 /\ reqs[s].body.error = "Failed to fetch secrets"

C13_Witness ==
    \E s \in Slots :
        /\ Answered(s, "list")
        /\ reqs[s].status = 200
        /\ Len(reqs[s].body.data) = 2
        /\ reqs[s].body.data[1].content = DecryptionErrorMarker
        /\ reqs[s].body.data[2].content = <<97>>

\* C14: when getSecretById finds the row of the user and decrypt raises, the
\* request is not answered with a 500.
C14_SingleReadReportsMarker ==
    \A s \in Slots :
        (/\ Answered(s, "get")
         /\ \E row \in RowsOf(reqs[s].id, reqs[s].user) : DecryptRow(row).threw)
        => reqs[s].status # 500

\* the ids of the entries a response of getAllSecrets or getSecretById shows
ShownIds(req) ==
    IF req.route = "list" THEN {req.body.data[i].id : i \in 1..Len(req.body.data)}
    ELSE {req.body.data.id}

\* the step is the answer of a controller to a request of the user
StepOf(userId) ==
    \E s \in Slots :
        /\ reqs[s].pc \in {"controller", "updating"}
        /\ reqs'[s].pc = "done"
        /\ reqs[s].user = userId

\* C15: a response of getAllSecrets or getSecretById to a user shows only rows
\* whose user_id is that user, and a row is changed or removed only by the
\* step of a request of the user the row belongs to (or by the storage
\* altering it), whatever updateSecret and deleteSecret requests other users
\* send.
C15_OwnershipIsolation ==
    /\ [](\A s \in Slots :
            ((Answered(s, "list") \/ Answered(s, "get")) /\ reqs[s].status = 200) =>
                \A row \in secrets :
                    row.id \in ShownIds(reqs[s]) => row.user_id = reqs[s].user)
    /\ [][\A row \in secrets :
            row \notin secrets' => (StepOf(row.user_id) \/ damaged' # damaged)]_vars

C15_Witness ==
    \E s \in Slots :
        /\ Answered(s, "delete")
        /\ reqs[s].status = 200
        /\ \E row \in secrets : row.id = reqs[s].id /\ row.user_id # reqs[s].user

\* the Authorization header is "Bearer <token>" with the token of the user
BearerOf(header, userId) ==
    \E token \in {Token1, Token2} :
        /\ header = BearerWord \o <<32>> \o token
        /\ getUser(token).user = Some(userId)

\* C16: a request is past authenticate (in validation, in a controller, or
\* answered by one of them) only if its Authorization header is exactly
\* "Bearer <token>" and the identity provider returned the request's user
\* for the token; a request that authenticate answers ends with 401 or 500
\* and has not accessed the store nor encrypt; no request accesses the
\* store before that.
C16_AuthenticationFirst ==
    \A s \in Slots :
        LET req == reqs[s] IN
        req.pc # "idle" =>
            /\ (req.pc \in {"validate", "controller", "updating"}
                \/ (req.pc = "done" /\ req.by \in {"validation", "controller"}))
               => (req.user \in Users /\ BearerOf(req.header, req.user))
            /\ (req.pc = "done" /\ req.by = "authenticate")
               => (req.status \in {401, 500} /\ req.queries = 0 /\ req.encrypts = 0
                   /\ req.user = "")
            /\ (req.queries > 0 \/ req.encrypts > 0)
               => (req.user \in Users /\ BearerOf(req.header, req.user))
            /\ (req.pc = "done" /\ req.route # "unknown" /\ req.by # "errorHandler"
                /\ ~\E u \in Users : BearerOf(req.header, u))
               => (req.by = "authenticate" /\ req.status \in {401, 500})

C16_Witness ==
    \E s \in Slots :
        /\ reqs[s].pc = "done"
        /\ reqs[s].by = "authenticate"
        /\ reqs[s].status = 401
        /\ reqs[s].header = <<98, 101, 97, 114, 101, 114, 32>> \o Token1
        /\ secrets # {}

\* the request of connection s has just written a row: createSecret answered
\* 201 or updateSecret answered 200
Wrote(s) ==
    \/ Answered(s, "create") /\ reqs[s].status = 201
    \/ Answered(s, "update") /\ reqs[s].status = 200

ErrorTexts ==
    {StoreError,
     "Invalid key length",
     "Invalid initialization vector",
     "Invalid authentication tag length",
     "The argument 'encoding' is invalid for data",
     "Unsupported state or unable to authenticate data",
     "Failed to encrypt data",
     "Failed to decrypt data - data may be corrupted or tampered"}

\* C19: every line the encryption service or a secrets controller writes
\* interpolates only user ids, secret ids, counts and messages of errors, and
\* every such message is one of the fixed texts of the store, the crypto
\* library and the service: no line carries a content or the key.
C19_NoSecretInLogs ==
    \A i \in 1..Len(logged) :
        logged[i].module \in {"EncryptionService", "SecretsController"} =>
            \A j \in 1..Len(logged[i].args) :
                LET arg == logged[i].args[j] IN
                /\ arg.kind \in {"userId", "secretId", "count", "error"}
                /\ arg.kind = "error" => arg.value \in ErrorTexts

C19_Witness ==
    /\ \E i \in 1..Len(logged) :
          /\ logged[i].module = "EncryptionService"
          /\ logged[i].level = "ERROR"
          /\ logged[i].args[1].value = "Unsupported state or unable to authenticate data"
    /\ \E i \in 1..Len(logged) :
          /\ logged[i].module = "SecretsController"
          /\ logged[i].text = "Error in getSecretById: "

\* the fixed messages of the failure responses
GenericErrors ==
    {"Route not found",
     "Internal server error",
     "Authentication required. Please provide a valid access token.",
     "Invalid or expired access token.",
     "Internal server error during authentication.",
     "Validation failed",
     "Failed to fetch secrets",
     "Secret not found",
     "Failed to create secret",
     "Failed to update secret",
     "Failed to delete secret"}

\* C20: the body of every failure response carries one of the fixed generic
\* messages, in every environment.
C20_NoInternalDetail ==
    \A s \in Slots :
        (reqs[s].pc = "done" /\ reqs[s].status >= 400) =>
            reqs[s].body.error \in GenericErrors

\* the step is the one in which the request of connection s is answered
Answers(s) == reqs[s].pc # "done" /\ reqs'[s].pc = "done"

\* the step is the one in which a controller answers the request of
\* connection s on the route with the status
ControllerAnswers(s, route, status) ==
    /\ Answers(s)
    /\ reqs'[s].by = "controller"
    /\ reqs'[s].route = route
    /\ reqs'[s].status = status

\* C24: the step that answers a createSecret or updateSecret request with an
\* error status leaves every row of the store as it was, and the store
\* changes only in the step that answers a request with 200 or 201 (or
\* when the storage alters a row); an updateSecret answered 404 has made
\* one query, the existence check, and no encrypt call.
C24_UnchangedOnFailure ==
    /\ [][\A s \in Slots :
            (Answers(s) /\ reqs'[s].route \in BodyRoutes /\ reqs'[s].status >= 400)
                => (secrets' = secrets /\ dbTime' = dbTime)]_vars
    /\ [][secrets' # secrets =>
            \/ damaged' # damaged
            \/ \E s \in Slots : Answers(s) /\ reqs'[s].status \in {200, 201}]_vars
    /\ [](\A s \in Slots :
            (Answered(s, "update") /\ reqs[s].status = 404) =>
                (reqs[s].encrypts = 0 /\ reqs[s].queries = 1))

\* an update of a row of the user that the store refused: encrypt ran, the
\* row is there
C24_Witness ==
    \E s \in Slots :
        /\ Answered(s, "update")
        /\ reqs[s].status = 500
        /\ reqs[s].encrypts = 1
        /\ \E row \in RowsOf(reqs[s].id, reqs[s].user) : row.updated_at = row.created_at

\* C25: a request that is in a middleware or a controller has no response
\* yet (a handler that has answered has not passed the request on); an
\* answered request has one status and one sender, and its response stays
\* as sent until the connection is free.
C25_ExactlyOneResponse ==
    /\ [](\A s \in Slots :
            LET req == reqs[s] IN
            /\ req.pc \in {"authenticate", "validate", "controller", "updating"} =>
                  req.status = 0 /\ req.by = ""
            /\ req.pc = "done" =>
                  /\ req.status \in {200, 201, 400, 401, 404, 500}
                  /\ req.by \in {"errorHandler", "notFound", "authenticate",
                                 "validation", "controller"})
    /\ [][\A s \in Slots :
            reqs[s].pc = "done" => (reqs'[s] = reqs[s] \/ reqs'[s] = Idle)]_vars

\* getSecretById answered once, by its catch block, after decrypt threw
C25_Witness ==
    \E s \in Slots :
        /\ Answered(s, "get")
        /\ reqs[s].status = 500
        /\ reqs[s].queries = 1
        /\ reqs[s].body = Failure("Internal server error")

\* C26: a row whose id the store did not hold before a step is the row a
\* createSecret answered 201 in that step inserted: no step of updateSecret,
\* in any interleaving with deleteSecret, brings a deleted row back.
C26_NoResurrection ==
    [][\A row \in secrets' :
          (\A old \in secrets : old.id # row.id) =>
              \E s \in Slots :
                  /\ ControllerAnswers(s, "create", 201)
                  /\ reqs'[s].body.data.id = row.id]_vars

\* an updateSecret that found its row, lost it to a deleteSecret before its
\* write and was answered 500: the row is absent
C26_Witness ==
    \E s \in Slots :
        /\ Answered(s, "update")
        /\ reqs[s].status = 500
        /\ reqs[s].queries = 2
        /\ reqs[s].encrypts = 1
        /\ \A row \in secrets : row.id # reqs[s].id

\* the request of connection s was a write the controller answered with
\* success: createSecret with 201 or updateSecret with 200
WriteSucceeded(s) ==
    \/ Answered(s, "create") /\ reqs[s].status = 201
    \/ Answered(s, "update") /\ reqs[s].status = 200

\* what a later read of the row shows as its content: the map of
\* getAllSecrets and the body of getSecretById both show decrypt's result
ReadBack(row) == DecryptRow(row).value

\* C27: when createSecret or updateSecret has answered with success and
\* content c for the record i, the row i (as long as no update or delete
\* touches it, and the storage does not alter it) is one for which decrypt
\* returns c, and getSecretById and getAllSecrets answer a read of a row
\* with what decrypt returns for it: a later read of i returns c.
C27_ApiRoundTrip ==
    /\ \A s \in Slots :
          WriteSucceeded(s) =>
              \A row \in RowsOf(reqs[s].body.data.id, reqs[s].user) :
                  /\ ~DecryptRow(row).threw
                  /\ ReadBack(row) = reqs[s].body.data.content
    /\ \A s \in Slots :
          (Answered(s, "get") /\ reqs[s].status = 200) =>
              \A row \in RowsOf(reqs[s].id, reqs[s].user) :
                  reqs[s].body.data.content = ReadBack(row)
    /\ \A s \in Slots :
          (Answered(s, "list") /\ reqs[s].status = 200) =>
              \A i \in 1..Len(reqs[s].body.data) :
                  \A row \in RowsOf(reqs[s].body.data[i].id, reqs[s].user) :
                      row.id \notin damaged =>
                          reqs[s].body.data[i].content = ReadBack(row)

\* C28: when the store answers its query, deleteSecret answers 200 whether
\* or not the user has a row of that id; the step removes exactly the rows
\* of that id and user, so a second delete changes nothing, and after it
\* the user has no row of that id.
C28_DeleteIdempotent ==
    /\ [][\A s \in Slots :
            ControllerAnswers(s, "delete", 200) =>
                /\ \A row \in secrets' : row \in secrets
                /\ \A row \in secrets :
                       row \in secrets' <=>
                          ~(row.id = reqs'[s].id /\ row.user_id = reqs'[s].user)]_vars
    /\ [](\A s \in Slots :
            Answered(s, "delete") =>
                /\ reqs[s].status \in {200, 500}
                /\ reqs[s].status = 200 => RowsOf(reqs[s].id, reqs[s].user) = {})

\* a delete answered 200 in a store that never held a row
C28_Witness ==
    \E s \in Slots :
        /\ Answered(s, "delete")
        /\ reqs[s].status = 200
        /\ secrets = {}
        /\ dbTime = 0

-----------------------------------------------------------------------------
(* Properties of the write path with the longest contents *)

\* the request of slot s passed authentication and body parsing on a route
\* that takes a content, and was answered
Validated(s) ==
    /\ reqs[s].pc = "done"
    /\ reqs[s].route \in BodyRoutes
    /\ reqs[s].by \in {"validation", "controller"}

\* C17: on create and update, a request that reaches the validation chains
\* with a content that is empty after trimming or longer than 10,000
\* characters is answered 400 by the validation layer without a call of
\* encrypt or a query of the store; a content of exactly 10,000 characters
\* (with a well-formed id on update) passes to the controller and is
\* encrypted once, unless the update finds no secret to update (404); and
\* encrypt only ever runs on a content of 1 to 10,000 characters.
C17_LengthBoundBeforeEncrypt ==
    \A s \in Slots :
        LET req == reqs[s]
            length == Len(req.content)
        IN  /\ (req.pc \in {"controller", "updating"}
                 \/ (req.pc = "done" /\ req.encrypts > 0))
                  => (length >= 1 /\ length <= MaxContentLength)
            /\ (Validated(s) /\ (length = 0 \/ length > MaxContentLength))
                  => /\ req.by = "validation"
                     /\ req.status = 400
                     /\ req.encrypts = 0
                     /\ req.queries = 0
            /\ (Validated(s) /\ req.by = "validation")
                  => (req.status = 400 /\ req.encrypts = 0)
            /\ (Validated(s) /\ length = MaxContentLength
                 /\ (req.route = "update" => IsUUID(req.id)))
                  => /\ req.by = "controller"
                     /\ (req.route = "create" => req.encrypts = 1)
                     /\ (req.route = "update" => (req.encrypts = 1 \/ req.status = 404))

\* a content of exactly 10,000 characters was created: encrypted once and
\* stored as 20,000 hex digits
C17_Witness ==
    \E s \in Slots :
        /\ Validated(s)
        /\ reqs[s].route = "create"
        /\ reqs[s].status = 201
        /\ Len(reqs[s].content) = MaxContentLength
        /\ reqs[s].encrypts = 1
        /\ \E row \in secrets :
              /\ row.id = reqs[s].body.data.id
              /\ Len(row.encrypted_content) = 2 * MaxContentLength

-----------------------------------------------------------------------------
(* Properties of the save modal *)

=============================================================================
